---- MODULE Spec2Model ----
(***************************************************************************)
(* The workout planner WorkoutApp (src/WorkoutApp.py): the question wizard *)
(* (ordered sections, Next / Back with the conditional skip, the submit    *)
(* button, collect_responses), the plan page with its timers and           *)
(* background generation threads, the rendering of a plan text, the plan   *)
(* file and the instruction popup.                                         *)
(*                                                                         *)
(* The specifications share the variables:                                 *)
(*   Spec          the application from construction on: loading screen,   *)
(*                 wizard navigation, focus input, submission, the plan    *)
(*                 page (scheduled generations, threads, display,          *)
(*                 Refresh, New Plan); a thread runs to its end in one     *)
(*                 step; the answer widgets of the other sections touch    *)
(*                 no navigation state and keep their initial values;      *)
(*   SpecFinalize  collect_responses applied to every combination of raw   *)
(*                 widget values the user can have entered at the last     *)
(*                 step;                                                   *)
(*   SpecScan      the line scan of display_workout_plan over every plan   *)
(*                 text of the bounded alphabet, one pass of the bracket   *)
(*                 loop per step;                                          *)
(*   SpecScanLive  SpecScan with the scan always taking its next step;     *)
(*   SpecGenerate  one generate_and_display_plan statement by statement    *)
(*                 (plan request, one line and its instruction request     *)
(*                 per step, store), followed by the display's scan;       *)
(*   SpecLoading   the loading screen of one generation: the progress and  *)
(*                 sentence callbacks of the main thread next to the       *)
(*                 statements of the generation thread, then the display;  *)
(*   SpecLoadingLive  SpecLoading with the thread and the main loop each   *)
(*                 taking the steps they can take;                         *)
(*   SpecPersist   save_workout_plan statement by statement and the        *)
(*                 load_saved_plan of the next start;                      *)
(*   SpecFormat    the instruction popup opened on every instruction text  *)
(*                 of the bounded line set.                                *)
(***************************************************************************)
EXTENDS Integers, Sequences, FiniteSets, TLC

(***************************************************************************)
(* Bounds of the model.                                                    *)
(***************************************************************************)
\* longest free text typed into a Text widget
MaxTextLen == 2

(***************************************************************************)
(* Python values held by the answer record.  Every value carries all the   *)
(* payload fields so that values of different Python types compare.        *)
(***************************************************************************)
PyNone == [t |-> "none", s |-> "", c |-> <<>>, n |-> 0, l |-> <<>>]

\* a string: a literal part followed by typed characters
PyStr(str, chars) == [t |-> "str", s |-> str, c |-> chars, n |-> 0, l |-> <<>>]

PyInt(int) == [t |-> "int", s |-> "", c |-> <<>>, n |-> int, l |-> <<>>]

\* a list of strings, each a pair <<literal part, typed characters>>
PyList(items) == [t |-> "list", s |-> "", c |-> <<>>, n |-> 0, l |-> items]

\* Python truthiness, as used by `x or default`
Truthy(v) ==
    CASE v.t = "none" -> FALSE
      [] v.t = "str"  -> v.s # "" \/ v.c # <<>>
      [] v.t = "int"  -> v.n # 0
      [] v.t = "list" -> v.l # <<>>

\* Python `a or b`
Or(a, b) == IF Truthy(a) THEN a ELSE b

(***************************************************************************)
(* Free text: sequences of characters, with str.strip().                   *)
(***************************************************************************)
Chars == {" ", "b"}

Texts == UNION {[1..k -> Chars] : k \in 0..MaxTextLen}

RECURSIVE LStrip(_)
LStrip(cs) == IF cs # <<>> /\ Head(cs) = " " THEN LStrip(Tail(cs)) ELSE cs

RECURSIVE RStrip(_)
RStrip(cs) ==
    IF cs # <<>> /\ cs[Len(cs)] = " " THEN RStrip(SubSeq(cs, 1, Len(cs) - 1)) ELSE cs

strip(cs) == RStrip(LStrip(cs))

(***************************************************************************)
(* The ordered question sections (self.sections).                          *)
(***************************************************************************)
sections ==
    << "focus_section", "goal_section", "experience_section", "equipment_section",
       "duration_section", "location_section", "injury_section", "style_section" >>

\* len(self.sections) - 1, the index of the last section
LastIndex == Len(sections) - 1

(***************************************************************************)
(* Widget value lists.  The muscle and equipment lists are prefixes or     *)
(* sub-lists of the ones in the source, in the source's order; the typed   *)
(* focus texts add one string that differs from the sentinel only in case. *)
(***************************************************************************)
\* Combobox values of WorkoutFocus
FocusValues == {"Full body", "Target muscle group"}

\* what focus_var can hold: empty, a list value, or text typed into the combobox
FocusTexts == {""} \cup FocusValues \cup {"full body"}

\* body_parts (first entry)
muscle_list == << "Chest" >>

\* equipment_list (first two entries and the catch-all)
equipment_list == << "Bodyweight only", "Dumbbells", "Other" >>

GoalTexts == {"", "Build muscle"}

ExperienceTexts == {"", "Advanced"}

LocationTexts == {"", "Gym"}

StyleTexts == {"", "HIIT"}

InjuryTexts == {"", "No", "Yes"}

\* positions of the duration slider that the model draws
DurationValues == {15, 60}

\* free text typed into the injury Text widget: nothing, a blank, a word
InjuryNotes == { <<>>, << " " >>, << "b" >> }

Range(f) == {f[i] : i \in DOMAIN f}

(***************************************************************************)
(* The answer record.                                                      *)
(***************************************************************************)
Keys ==
    { "Workout Focus", "Muscle Groups", "Goal", "Experience", "Equipment",
      "Duration", "Location", "Injuries", "Workout Style" }

\* no record (load_saved_plan returned None; no page built yet)
NoRecord == [k \in Keys |-> PyNone]

VARIABLES
    screen,                 \* "loading", "form" or "plan": what the window shows
    saved_plan,             \* self.saved_plan, read once at construction
    plan_file,              \* data_dir/workout_plan.json
    alt_file,               \* the alternative workout_plan.json next to the script
    current_section_index,  \* self.current_section_index
    back_packed,            \* back_button is packed
    next_packed,            \* next_button is packed
    submit_packed,          \* submit_frame (with the collect_responses bindings) is packed
    question_numbers,       \* the number in each section's question_label (0: no text yet)
    focus_var,
    muscle_frame_packed,    \* WorkoutFocus.muscle_frame is packed
    muscle_vars,
    goal_var,
    experience_var,
    equipment_vars,
    equipment_text,         \* EquipmentSelection.text_widget
    duration_var,
    location_var,
    injury_var,
    injury_text,            \* InjuryRestrictions.text_widget
    style_var,
    responses,              \* WorkoutPlanPage.responses
    page,                   \* plan_container: "none", "loading", "error" or "displayed"
    is_generating,          \* WorkoutPlanPage.is_generating
    start_timers,           \* pending after(100, start_plan_generation) callbacks of the page
    display_timers,         \* pending after(500, display_workout_plan) callbacks of the page
    threads,                \* the generate_and_display_plan threads in flight, oldest first
    thread_log,             \* history: what the thread that ended in the last step has done
    lastOp,                 \* history: the last operation
    fromIndex,              \* history: current_section_index before the last operation
    nextFrom,               \* history: index before a Next that the last operation is, or undoes
    shown,                  \* history: sections shown since the first section was last shown
    forward_numbers,        \* history: the numbers displayed since the first section was
                            \* last shown, while the form is up and only Next was pressed
    plan_lines,             \* display_workout_plan: plan.split('\n'), the raw lines
    line_no,                \* display_workout_plan: number of the line the for loop is at
    line,                   \* display_workout_plan: the loop variable `line` as last assigned
    current_pos,            \* display_workout_plan: current_pos of the bracket loop
    inserts,                \* self.plan_text: the inserts made after the timestamp, in order
    line_start,             \* history: Len(inserts) when the current line was taken
    line_class,             \* history: the branch the current line took
    odd_pass,               \* history: the while loop has made an odd number of passes on the line
    scan_pc,                \* display_workout_plan: "idle", "lines", "brackets" or "done"
    gen_pc,                 \* generate_and_display_plan: "idle", "request", "lines", "done", "failed"
    gen_lines,              \* generate_and_display_plan: lines = plan_text.split('\n')
    gen_line_no,            \* generate_and_display_plan: number of the line the for loop is at
    processed_lines,        \* generate_and_display_plan: processed_lines
    exercise_instructions,  \* the exercise_instructions dict, name -> text
    requests,               \* history: the instruction requests made, in order, with their outcomes
    save_pc,                \* save_workout_plan: "idle", "primary", "sync", "alt", "alt_sync",
                            \* "returned", or "loaded" after the load_saved_plan that follows
    save_arg,               \* save_workout_plan: the argument plan
    save_log,               \* history: the outcomes of the writes and of the read
    loaded,                 \* what load_saved_plan has returned
    instructions,           \* ExerciseInstructionPopup: instructions.split('\n')
    popup_inserts,          \* ExerciseInstructionPopup: the inserts into self.text_widget
    popup_open,             \* an ExerciseInstructionPopup has been constructed
    progress_value,         \* WorkoutPlanPage.progress_value
    progress_fill,          \* WorkoutPlanPage.progress_fill: the id of a canvas item
    elapsed,                \* time.time() - self.start_time, in seconds
    loading_sentence_active,
    progress_timer,         \* an after(16, update_progress_bar) callback is pending
    sentence_timer,         \* an after(5000, update_loading_sentence) callback is pending
    fg_writes,              \* history: shared variables the main thread has written
                            \* while the generation thread was running
    bg_writes               \* history: shared variables the generation thread has written

navVars ==
    << current_section_index, back_packed, next_packed, submit_packed, question_numbers >>

inputVars ==
    << focus_var, muscle_frame_packed, muscle_vars, goal_var, experience_var,
       equipment_vars, equipment_text, duration_var, location_var, injury_var,
       injury_text, style_var >>

fileVars == << saved_plan, plan_file, alt_file >>

histVars == << lastOp, fromIndex, nextFrom, shown, forward_numbers >>

pageVars == << is_generating, start_timers, display_timers, threads >>

appVars ==
    << screen, navVars, inputVars, fileVars, responses, page, pageVars, thread_log, histVars >>

scanVars ==
    << plan_lines, line_no, line, current_pos, inserts, line_start, line_class, odd_pass,
       scan_pc >>

genVars ==
    << gen_pc, gen_lines, gen_line_no, processed_lines, exercise_instructions, requests >>

persistVars == << save_pc, save_arg, save_log, loaded >>

formatVars == << instructions, popup_inserts, popup_open >>

\* the variables of the other detailed models
loadingVars ==
    << progress_value, progress_fill, elapsed, loading_sentence_active, progress_timer,
       sentence_timer, fg_writes, bg_writes >>

\* the variables of the other detailed models
auxVars == << persistVars, formatVars, loadingVars >>

\* the variables of the detailed scan, generation and other steps
detailVars == << scanVars, genVars, auxVars >>

vars == << appVars, scanVars, genVars, auxVars >>

NoIndex == 0 - 1

(***************************************************************************)
(* collect_responses: the answer record built from the raw widget values.  *)
(***************************************************************************)
\* as collect_equipment_info, but the bare "Other" entry is not removed
collect_equipment_info_keeps_other(eqvars, text) ==
    LET equipment == SelectSeq(equipment_list, LAMBDA eq : eqvars[eq])
        items == [i \in DOMAIN equipment |-> << equipment[i], <<>> >>]
        other_equipment == strip(text)
    IN  IF "Other" \in Range(equipment) /\ other_equipment # <<>>
        THEN items \o << << "Other: ", other_equipment >> >>
        ELSE items

\* [eq for eq, var in equipment_vars.items() if var.get()], then the "Other" merge
collect_equipment_info(eqvars, text) ==
    LET equipment == SelectSeq(equipment_list, LAMBDA eq : eqvars[eq])
        items == [i \in DOMAIN equipment |-> << equipment[i], <<>> >>]
        other_equipment == strip(text)
    IN  IF "Other" \in Range(equipment) /\ other_equipment # <<>>
        THEN SelectSeq(items, LAMBDA it : it[1] # "Other")
                 \o << << "Other: ", other_equipment >> >>
        ELSE items

\* the stripped text if "Yes" is selected and the text is not blank, else None
collect_injury_info(injury, text) ==
    IF injury = "Yes"
    THEN Or(PyStr("", strip(text)), PyNone)
    ELSE PyNone

\* the checked muscles if the focus is "Target muscle group", else None
MuscleGroups(focus, mvars) ==
    IF focus = "Target muscle group"
    THEN PyList([i \in DOMAIN SelectSeq(muscle_list, LAMBDA m : mvars[m]) |->
                    << SelectSeq(muscle_list, LAMBDA m : mvars[m])[i], <<>> >>])
    ELSE PyNone

\* self.duration_var.get() or "60 minutes"; duration_var is the slider's IntVar
Duration(duration) == Or(PyInt(duration), PyStr("60 minutes", <<>>))

\* as Equipment, without the `or ["Bodyweight only"]`
EquipmentNoDefault(eqvars, text) == PyList(collect_equipment_info(eqvars, text))

\* self.equipment_section.collect_equipment_info() or ["Bodyweight only"]
Equipment(eqvars, text) ==
    Or(PyList(collect_equipment_info(eqvars, text)),
       PyList(<< << "Bodyweight only", <<>> >> >>))

\* the responses dict of collect_responses, from the raw widget values
BuildResponses(focus, mvars, goal, experience, eqvars, etext, duration, location, injury, itext, style) ==
    [k \in Keys |->
        CASE k = "Workout Focus" -> Or(PyStr(focus, <<>>), PyStr("Full body", <<>>))
          [] k = "Muscle Groups" -> MuscleGroups(focus, mvars)
          [] k = "Goal"          -> Or(PyStr(goal, <<>>), PyStr("General fitness", <<>>))
          [] k = "Experience"    -> Or(PyStr(experience, <<>>), PyStr("Beginner", <<>>))
          [] k = "Equipment"     -> Equipment(eqvars, etext)
          [] k = "Duration"      -> Duration(duration)
          [] k = "Location"      -> Or(PyStr(location, <<>>), PyStr("Home", <<>>))
          [] k = "Injuries"      -> Or(collect_injury_info(injury, itext), PyNone)
          [] k = "Workout Style" -> Or(PyStr(style, <<>>), PyStr("Traditional sets", <<>>))]

CollectedResponses ==
    BuildResponses(focus_var, muscle_vars, goal_var, experience_var, equipment_vars,
                   equipment_text, duration_var, location_var, injury_var, injury_text,
                   style_var)

(***************************************************************************)
(* The widget values right after show_main_form has built the form.        *)
(***************************************************************************)
NoMuscles == [m \in Range(muscle_list) |-> FALSE]

NoEquipment == [eq \in Range(equipment_list) |-> FALSE]

\* tk.IntVar(value=60) of WorkoutDuration
InitialDuration == 60

\* a record an earlier run of the application has saved
EarlierRecord ==
    BuildResponses("", NoMuscles, "", "", NoEquipment, <<>>, InitialDuration, "", "",
                   <<>>, "")

(***************************************************************************)
(* show_current_question: which navigation widgets are packed.             *)
(***************************************************************************)
BackPacked(idx) == idx > 0

NextPacked(idx) == idx < LastIndex

\* as SubmitPacked, with the bound off by one
SubmitPackedOneEarly(idx) == ~(idx < LastIndex - 1)

\* the else branch: the submit frame, bound to collect_responses
SubmitPacked(idx) == ~(idx < LastIndex)

\* self.sections[idx]: a Python list index (negative indices count from the end)
SectionAt(idx) ==
    IF idx \in 0..LastIndex THEN sections[idx + 1]
    ELSE IF idx \in (0 - Len(sections))..(0 - 1) THEN sections[Len(sections) + idx + 1]
    ELSE "IndexError"

\* the sections with a question_label that update_numbering writes
NumberedSections == Range(Tail(sections))

\* question labels created without a text
NoNumbers == [s \in NumberedSections |-> 0]

\* the number in the fixed label of the focus section
FocusNumber == 1

\* the update_numbering calls of the "Target muscle group" branch
TargetNumbers ==
    [goal_section |-> 3, experience_section |-> 4, equipment_section |-> 5,
     duration_section |-> 6, location_section |-> 7, injury_section |-> 8,
     style_section |-> 9]

\* the update_numbering calls of the else branch
OtherNumbers ==
    [goal_section |-> 2, experience_section |-> 3, equipment_section |-> 4,
     duration_section |-> 5, location_section |-> 6, injury_section |-> 7,
     style_section |-> 8]

\* as UpdateNumbering, with the branches exchanged
UpdateNumberingExchanged(focus) == IF focus = "Target muscle group" THEN OtherNumbers ELSE TargetNumbers

\* the numbers show_current_question writes into the question labels
UpdateNumbering(focus) == IF focus = "Target muscle group" THEN TargetNumbers ELSE OtherNumbers

\* the number displayed on the section at idx
DisplayedNumber(numbers, idx) == IF idx = 0 THEN FocusNumber ELSE numbers[SectionAt(idx)]

\* an IndexError at self.sections[idx] leaves the navigation widgets as they were;
\* focus is what focus_var holds when the handler runs
ShowCurrentQuestion(idx, focus) ==
    IF SectionAt(idx) = "IndexError"
    THEN UNCHANGED << back_packed, next_packed, submit_packed, question_numbers, shown,
                      forward_numbers >>
    ELSE /\ back_packed' = BackPacked(idx)
         /\ next_packed' = NextPacked(idx)
         /\ submit_packed' = SubmitPacked(idx)
         /\ question_numbers' = UpdateNumbering(focus)
         /\ shown' = IF idx = 0 THEN {SectionAt(idx)} ELSE shown \cup {SectionAt(idx)}
         /\ forward_numbers' =
                IF idx = 0 THEN << FocusNumber >>
                ELSE IF idx > current_section_index /\ forward_numbers # << >>
                     THEN Append(forward_numbers, DisplayedNumber(UpdateNumbering(focus), idx))
                     ELSE << >>

(***************************************************************************)
(* show_next_question / show_previous_question: the index they leave.      *)
(***************************************************************************)
\* as NextSectionIndex, skipping whenever the focus is not "Target muscle group"
NextSectionIndexSkipsUnlessTarget(idx, focus) ==
    IF idx < LastIndex
    THEN IF idx = 0 /\ focus # "Target muscle group" THEN idx + 2 ELSE idx + 1
    ELSE idx

\* as NextSectionIndex, with the skip taken at every index
NextSectionIndexSkipsAnywhere(idx, focus) ==
    IF idx < LastIndex
    THEN IF focus = "Full body" THEN idx + 2 ELSE idx + 1
    ELSE idx

\* as NextSectionIndex, with no skip at all
NextSectionIndexNoSkip(idx, focus) == IF idx < LastIndex THEN idx + 1 ELSE idx

NextSectionIndex(idx, focus) ==
    IF idx < LastIndex
    THEN IF idx = 0 /\ focus = "Full body" THEN idx + 2 ELSE idx + 1
    ELSE idx

\* as PreviousSectionIndex, without the skip
PreviousSectionIndexNoSkip(idx, focus) ==
    IF idx > 0 THEN idx - 1 ELSE idx

\* as PreviousSectionIndex, skipping from index 2 whatever the focus is
PreviousSectionIndexSkipsAlways(idx, focus) ==
    IF idx > 0
    THEN IF idx = 2 THEN idx - 2 ELSE idx - 1
    ELSE idx

PreviousSectionIndex(idx, focus) ==
    IF idx > 0
    THEN IF idx = 2 /\ focus = "Full body" THEN idx - 2 ELSE idx - 1
    ELSE idx

(***************************************************************************)
(* save_workout_plan: the primary write, and the alternative location if   *)
(* the primary write raises.  The outcomes of the two writes are inputs.   *)
(***************************************************************************)
\* json.dump / json.load of one value: None <-> null, str <-> string,
\* int <-> number, list <-> array
JsonValue(j, v) == [j |-> j, s |-> v.s, c |-> v.c, n |-> v.n, l |-> v.l]

json_dump_value(v) ==
    CASE v.t = "none" -> JsonValue("null", v)
      [] v.t = "str"  -> JsonValue("string", v)
      [] v.t = "int"  -> JsonValue("number", v)
      [] v.t = "list" -> JsonValue("array", v)

json_load_value(x) ==
    CASE x.j = "null"   -> PyNone
      [] x.j = "string" -> PyStr(x.s, x.c)
      [] x.j = "number" -> PyInt(x.n)
      [] x.j = "array"  -> PyList(x.l)

\* json.dump(plan, f): the object written, one member per key of the dict
json_dump(plan) == [k \in DOMAIN plan |-> json_dump_value(plan[k])]

\* json.load(f)
json_load(text) == [k \in DOMAIN text |-> json_load_value(text[k])]

\* a path with no file, and a file holding a JSON text
NoFile == [exists |-> FALSE, json |-> << >>]

FileWith(text) == [exists |-> TRUE, json |-> text]

\* load_saved_plan on the file at data_dir/workout_plan.json, the only path
\* it reads: None when the file is missing or open / json.load raises
load_saved_plan(file, read_ok) ==
    IF file.exists /\ read_ok THEN json_load(file.json) ELSE NoRecord

SaveWorkoutPlan(plan, primary_ok, alt_ok) ==
    /\ plan_file' = IF primary_ok THEN FileWith(json_dump(plan)) ELSE plan_file
    /\ alt_file' = IF ~primary_ok /\ alt_ok THEN FileWith(json_dump(plan)) ELSE alt_file

(***************************************************************************)
(* The keys the plan code adds to the answer record.  At the level of the  *)
(* application the plan text is known by its kind only; its lines are the  *)
(* matter of SpecScan and SpecGenerate.                                    *)
(***************************************************************************)
\* d[k] = v on a dict
SetItem(d, k, v) == [x \in DOMAIN d \cup {k} |-> IF x = k THEN v ELSE d[x]]

\* k in d
HasKey(d, k) == k \in DOMAIN d

\* a plan text the model returned
GeneratedPlan == PyStr("generated plan", <<>>)

\* the "Fallback plan if Gemini fails" of generate_workout_plan
FallbackPlan == PyStr("fallback plan", <<>>)

Timestamp == PyStr("timestamp", <<>>)

Instructions == PyStr("exercise instructions", <<>>)

\* as StorePlan, with the goal answer replaced by the plan text
StorePlanOverGoal(d) == SetItem(d, "Goal", GeneratedPlan)

\* generate_and_display_plan, success: the three keys stored before the save
StorePlan(d) ==
    SetItem(SetItem(SetItem(d, "exercise_instructions", Instructions),
                    "plan_text", GeneratedPlan),
            "timestamp", Timestamp)

\* 'plan_text' in responses and 'timestamp' in responses
is_saved_plan(d) == HasKey(d, "plan_text") /\ HasKey(d, "timestamp")

\* generate_workout_plan: the record it leaves and the text it returns
generate_workout_plan(d, ok) ==
    IF ok
    THEN [d |-> SetItem(d, "exercise_instructions", Instructions), plan |-> GeneratedPlan]
    ELSE [d |-> d, plan |-> FallbackPlan]

\* the record display_workout_plan(responses, is_saved_plan=True) leaves: the
\* timestamp and the plan text are made where the record lacks them
display_workout_plan(d, ok) ==
    LET stamped == IF HasKey(d, "timestamp") THEN d ELSE SetItem(d, "timestamp", Timestamp)
    IN  IF HasKey(stamped, "plan_text")
        THEN stamped
        ELSE SetItem(generate_workout_plan(stamped, ok).d, "plan_text",
                     generate_workout_plan(stamped, ok).plan)

\* a record a complete earlier generation has saved
GeneratedRecord == StorePlan(EarlierRecord)

(***************************************************************************)
(* The plan page's timers and background threads.  Their numbers need no   *)
(* bound: the buttons that start a generation exist only after a display,  *)
(* and New Plan cancels the page's callbacks.                              *)
(***************************************************************************)
\* a thread in flight: whether its page has been destroyed, and if so the
\* record it was started with
Thread(stale, rec) == [stale |-> stale, rec |-> rec]

\* no background thread ended in the last step
NoLog ==
    [ended |-> FALSE, on_page |-> FALSE, plan_ok |-> FALSE, instruction_loop |-> FALSE,
     display_updates |-> 0, notifications |-> 0]

\* a thread ended: whether its page still exists, whether its plan request
\* returned a text, whether it ran the for loop with the instruction requests,
\* the widget calls it made itself, the callbacks it scheduled with after()
EndLog(on_page, plan_ok, display_updates, notifications) ==
    [ended |-> TRUE, on_page |-> on_page, plan_ok |-> plan_ok, instruction_loop |-> plan_ok,
     display_updates |-> display_updates, notifications |-> notifications]

PageIdle ==
    /\ is_generating = FALSE
    /\ start_timers = 0
    /\ display_timers = 0
    /\ threads = <<>>
    /\ thread_log = NoLog

ScanIdle ==
    /\ plan_lines = <<>>
    /\ line_no = 0
    /\ line = <<>>
    /\ current_pos = 0
    /\ inserts = <<>>
    /\ line_start = 0
    /\ line_class = "none"
    /\ odd_pass = FALSE
    /\ scan_pc = "idle"

\* the outcomes of a save and the read after it: "none", "ok" or "raised"
NoSaveLog == [primary |-> "none", alt |-> "none", alt_attempts |-> 0, syncs |-> 0, read |-> "none"]

PersistIdle ==
    /\ save_pc = "idle"
    /\ save_arg = NoRecord
    /\ save_log = NoSaveLog
    /\ loaded = NoRecord

FormatIdle ==
    /\ instructions = << >>
    /\ popup_inserts = << >>
    /\ popup_open = FALSE

LoadingIdle ==
    /\ progress_value = 0
    /\ progress_fill = 0
    /\ elapsed = 0
    /\ loading_sentence_active = FALSE
    /\ progress_timer = FALSE
    /\ sentence_timer = FALSE
    /\ fg_writes = {}
    /\ bg_writes = {}

AuxIdle == PersistIdle /\ FormatIdle /\ LoadingIdle

GenIdle ==
    /\ gen_pc = "idle"
    /\ gen_lines = <<>>
    /\ gen_line_no = 0
    /\ processed_lines = <<>>
    /\ exercise_instructions = <<>>
    /\ requests = <<>>

\* a step of the foreground loop, at the level of the application
Foreground ==
    /\ thread_log' = NoLog
    /\ UNCHANGED detailVars

\* show_loading_screen
show_loading_screen ==
    /\ page' = "loading"
    /\ is_generating' = TRUE

(***************************************************************************)
(* Initial state: the application object is constructed, the loading       *)
(* screen is up and the saved plan, if any, has been read.                 *)
(***************************************************************************)
FormUnbuilt ==
    /\ current_section_index = 0
    /\ back_packed = FALSE
    /\ next_packed = FALSE
    /\ submit_packed = FALSE
    /\ question_numbers = NoNumbers
    /\ focus_var = ""
    /\ muscle_frame_packed = FALSE
    /\ muscle_vars = NoMuscles
    /\ goal_var = ""
    /\ experience_var = ""
    /\ equipment_vars = NoEquipment
    /\ equipment_text = <<>>
    /\ duration_var = InitialDuration
    /\ location_var = ""
    /\ injury_var = ""
    /\ injury_text = <<>>
    /\ style_var = ""

Init ==
    /\ screen = "loading"
    /\ plan_file \in {NoFile, FileWith(json_dump(EarlierRecord)), FileWith(json_dump(GeneratedRecord))}
    /\ alt_file = NoFile
    /\ saved_plan \in {load_saved_plan(plan_file, read_ok) : read_ok \in BOOLEAN}
    /\ FormUnbuilt
    /\ responses = NoRecord
    /\ page = "none"
    /\ PageIdle
    /\ lastOp = "init"
    /\ fromIndex = 0
    /\ nextFrom = NoIndex
    /\ shown = {}
    /\ forward_numbers = << >>
    /\ ScanIdle
    /\ GenIdle
    /\ AuxIdle

(***************************************************************************)
(* show_main_form: fresh answer variables, index 0, first question shown.  *)
(***************************************************************************)
ShowMainForm ==
    /\ screen' = "form"
    /\ focus_var' = ""
    /\ muscle_frame_packed' = FALSE
    /\ muscle_vars' = NoMuscles
    /\ goal_var' = ""
    /\ experience_var' = ""
    /\ equipment_vars' = NoEquipment
    /\ equipment_text' = <<>>
    /\ duration_var' = InitialDuration
    /\ location_var' = ""
    /\ injury_var' = ""
    /\ injury_text' = <<>>
    /\ style_var' = ""
    /\ current_section_index' = 0
    /\ ShowCurrentQuestion(0, "")

\* show_initial_screen, run once by the 2 s timer.  With a saved record it
\* builds the plan page (whose __init__ shows the loading screen and schedules a
\* generation if the record lacks the plan text or the timestamp) and then calls
\* display_workout_plan, which generates the missing plan text by itself.
ShowInitialScreen ==
    /\ screen = "loading"
    /\ IF saved_plan # NoRecord
       THEN /\ screen' = "plan"
            /\ page' = "displayed"
            /\ \E ok \in BOOLEAN : responses' = display_workout_plan(saved_plan, ok)
            /\ IF is_saved_plan(saved_plan)
               THEN UNCHANGED pageVars
               ELSE /\ is_generating' = TRUE
                    /\ start_timers' = start_timers + 1
                    /\ UNCHANGED << display_timers, threads >>
            /\ UNCHANGED << navVars, inputVars, shown, forward_numbers >>
       ELSE /\ ShowMainForm
            /\ UNCHANGED << responses, page, pageVars >>
    /\ lastOp' = "start"
    /\ fromIndex' = current_section_index
    /\ nextFrom' = NoIndex
    /\ UNCHANGED fileVars
    /\ Foreground

(***************************************************************************)
(* Navigation.  The handlers run on a click on their label, which          *)
(* show_current_question packs only where the move is possible.            *)
(***************************************************************************)
ShowNextQuestion ==
    /\ screen = "form"
    /\ next_packed
    /\ current_section_index' = NextSectionIndex(current_section_index, focus_var)
    /\ IF current_section_index < LastIndex
       THEN ShowCurrentQuestion(current_section_index', focus_var)
       ELSE UNCHANGED << back_packed, next_packed, submit_packed, question_numbers, shown,
                      forward_numbers >>
    /\ lastOp' = "next"
    /\ fromIndex' = current_section_index
    /\ nextFrom' = current_section_index
    /\ UNCHANGED << screen, inputVars, fileVars, responses, page, pageVars >>
    /\ Foreground

ShowPreviousQuestion ==
    /\ screen = "form"
    /\ back_packed
    /\ current_section_index' = PreviousSectionIndex(current_section_index, focus_var)
    /\ IF current_section_index > 0
       THEN ShowCurrentQuestion(current_section_index', focus_var)
       ELSE UNCHANGED << back_packed, next_packed, submit_packed, question_numbers, shown,
                      forward_numbers >>
    /\ lastOp' = "back"
    /\ fromIndex' = current_section_index
    /\ nextFrom' = IF lastOp = "next" THEN nextFrom ELSE NoIndex
    /\ UNCHANGED << screen, inputVars, fileVars, responses, page, pageVars >>
    /\ Foreground

(***************************************************************************)
(* The focus section (packed while index 0 is shown): the combobox, whose  *)
(* list selection runs on_focus_change, and the muscle checkboxes.         *)
(***************************************************************************)
FocusSectionShown == screen = "form" /\ SectionAt(current_section_index) = "focus_section"

InputDone ==
    /\ lastOp' = "input"
    /\ fromIndex' = current_section_index
    /\ nextFrom' = NoIndex
    /\ UNCHANGED << screen, navVars, fileVars, responses, page, pageVars, shown, forward_numbers >>
    /\ Foreground

SelectFocus(v) ==
    /\ FocusSectionShown
    /\ focus_var' = v
    /\ muscle_frame_packed' = (v = "Target muscle group")
    /\ UNCHANGED << muscle_vars, goal_var, experience_var, equipment_vars, equipment_text,
                    duration_var, location_var, injury_var, injury_text, style_var >>
    /\ InputDone

TypeFocus(v) ==
    /\ FocusSectionShown
    /\ focus_var' = v
    /\ UNCHANGED << muscle_frame_packed, muscle_vars, goal_var, experience_var,
                    equipment_vars, equipment_text, duration_var, location_var,
                    injury_var, injury_text, style_var >>
    /\ InputDone

\* CustomCheckbox.on_click of a muscle checkbox
ClickMuscle(m) ==
    /\ FocusSectionShown
    /\ muscle_frame_packed
    /\ muscle_vars' = [muscle_vars EXCEPT ![m] = ~@]
    /\ UNCHANGED << focus_var, muscle_frame_packed, goal_var, experience_var,
                    equipment_vars, equipment_text, duration_var, location_var,
                    injury_var, injury_text, style_var >>
    /\ InputDone

(***************************************************************************)
(* collect_responses, bound to the submit frame.                           *)
(***************************************************************************)
CollectResponses ==
    /\ screen = "form"
    /\ submit_packed
    /\ responses' = CollectedResponses
    /\ \E primary_ok, alt_ok \in BOOLEAN : SaveWorkoutPlan(CollectedResponses, primary_ok, alt_ok)
    /\ screen' = "plan"
    /\ show_loading_screen
    /\ start_timers' = start_timers + 1
    /\ lastOp' = "submit"
    /\ fromIndex' = current_section_index
    /\ nextFrom' = NoIndex
    /\ forward_numbers' = << >>
    /\ UNCHANGED << navVars, inputVars, saved_plan, shown, display_timers, threads >>
    /\ Foreground

(***************************************************************************)
(* The plan page.  WorkoutPlanPage.__init__ (run by collect_responses and  *)
(* show_initial_screen) and refresh_plan show the loading screen and       *)
(* schedule start_plan_generation; the thread it starts runs               *)
(* generate_and_display_plan; display_workout_plan shows the plan with the *)
(* Refresh and New Plan buttons; New Plan destroys the page, and with it   *)
(* the page's pending callbacks.                                           *)
(***************************************************************************)
\* the after(100) callback: start_plan_generation starts the thread
StartPlanGeneration ==
    /\ screen = "plan"
    /\ start_timers > 0
    /\ start_timers' = start_timers - 1
    /\ threads' = Append(threads, Thread(FALSE, NoRecord))
    /\ lastOp' = "start_generation"
    /\ fromIndex' = current_section_index
    /\ nextFrom' = NoIndex
    /\ UNCHANGED << screen, navVars, inputVars, fileVars, responses, page, is_generating,
                    display_timers, shown, forward_numbers >>
    /\ Foreground

\* the sequence without its i-th element
Without(seq, i) == SubSeq(seq, 1, i - 1) \o SubSeq(seq, i + 1, Len(seq))

\* the loading frame (progress canvas, parent of the error label) of the
\* thread's page still exists
LoadingFrameAlive(t) == ~t.stale /\ page \in {"loading", "error"}

\* generate_and_display_plan, run by thread i to its end.  plan_ok: the plan
\* request returned a text.  The widget calls raise TclError once the loading
\* frame is destroyed: after a success that sends the thread into its except
\* branch, whose own Label call raises again and ends the thread.
GenerateAndDisplayPlan(i, plan_ok) ==
    LET t == threads[i]
        mine == IF t.stale THEN t.rec ELSE responses
        alive == LoadingFrameAlive(t)
    IN  /\ threads' = Without(threads, i)
        /\ IF plan_ok
           THEN /\ \E primary_ok, alt_ok \in BOOLEAN :
                       SaveWorkoutPlan(StorePlan(mine), primary_ok, alt_ok)
                /\ responses' = IF t.stale THEN responses ELSE StorePlan(mine)
                /\ display_timers' = IF alive THEN display_timers + 1 ELSE display_timers
                /\ page' = page
                /\ thread_log' = IF alive THEN EndLog(~t.stale, TRUE, 2, 1)
                                  ELSE EndLog(~t.stale, TRUE, 0, 0)
           ELSE /\ UNCHANGED << plan_file, alt_file, responses, display_timers >>
                /\ page' = IF alive THEN "error" ELSE page
                /\ thread_log' = IF alive THEN EndLog(~t.stale, FALSE, 2, 0)
                                  ELSE EndLog(~t.stale, FALSE, 0, 0)
        /\ is_generating' = IF t.stale THEN is_generating ELSE FALSE
        /\ lastOp' = "thread"
        /\ fromIndex' = current_section_index
        /\ nextFrom' = NoIndex
        /\ UNCHANGED << screen, navVars, inputVars, saved_plan, start_timers, shown, forward_numbers >>
        /\ UNCHANGED detailVars

\* the after(500) callback: display_workout_plan(responses, is_saved_plan=True)
DisplayWorkoutPlan ==
    /\ screen = "plan"
    /\ display_timers > 0
    /\ display_timers' = display_timers - 1
    /\ page' = "displayed"
    /\ \E ok \in BOOLEAN : responses' = display_workout_plan(responses, ok)
    /\ lastOp' = "display"
    /\ fromIndex' = current_section_index
    /\ nextFrom' = NoIndex
    /\ UNCHANGED << screen, navVars, inputVars, fileVars, is_generating, start_timers, threads,
                    shown, forward_numbers >>
    /\ Foreground

\* refresh_plan, bound to the Refresh button that create_buttons packs
RefreshPlan ==
    /\ screen = "plan"
    /\ page = "displayed"
    /\ show_loading_screen
    /\ start_timers' = start_timers + 1
    /\ lastOp' = "refresh"
    /\ fromIndex' = current_section_index
    /\ nextFrom' = NoIndex
    /\ UNCHANGED << screen, navVars, inputVars, fileVars, responses, display_timers, threads,
                    shown, forward_numbers >>
    /\ Foreground

\* start_new_plan, bound to the New Plan button that create_buttons packs
StartNewPlan ==
    /\ screen = "plan"
    /\ page = "displayed"
    /\ ShowMainForm
    /\ responses' = NoRecord
    /\ page' = "none"
    /\ is_generating' = FALSE
    /\ start_timers' = 0
    /\ display_timers' = 0
    /\ threads' = [i \in DOMAIN threads |->
                      IF threads[i].stale THEN threads[i] ELSE Thread(TRUE, responses)]
    /\ lastOp' = "new"
    /\ fromIndex' = current_section_index
    /\ nextFrom' = NoIndex
    /\ UNCHANGED fileVars
    /\ Foreground

Next ==
    \/ ShowInitialScreen
    \/ ShowNextQuestion
    \/ ShowPreviousQuestion
    \/ \E v \in FocusValues : SelectFocus(v)
    \/ \E v \in FocusTexts : TypeFocus(v)
    \/ \E m \in Range(muscle_list) : ClickMuscle(m)
    \/ CollectResponses
    \/ StartPlanGeneration
    \/ \E i \in DOMAIN threads, plan_ok \in BOOLEAN : GenerateAndDisplayPlan(i, plan_ok)
    \/ DisplayWorkoutPlan
    \/ RefreshPlan
    \/ StartNewPlan

Spec == Init /\ [][Next]_vars

(***************************************************************************)
(* SpecFinalize: the user stands on the last section, having entered any   *)
(* combination of raw values on the way, and submits.                      *)
(***************************************************************************)
InitFinalize ==
    /\ screen = "form"
    /\ plan_file = NoFile
    /\ saved_plan = NoRecord
    /\ alt_file = NoFile
    /\ current_section_index = LastIndex
    /\ back_packed = BackPacked(LastIndex)
    /\ next_packed = NextPacked(LastIndex)
    /\ submit_packed = SubmitPacked(LastIndex)
    /\ focus_var \in FocusTexts
    /\ question_numbers = UpdateNumbering(focus_var)
    /\ muscle_frame_packed = (focus_var = "Target muscle group")
    /\ muscle_vars \in [Range(muscle_list) -> BOOLEAN]
    /\ goal_var \in GoalTexts
    /\ experience_var \in ExperienceTexts
    /\ equipment_vars \in [Range(equipment_list) -> BOOLEAN]
    /\ equipment_text \in Texts
    /\ duration_var \in DurationValues
    /\ location_var \in LocationTexts
    /\ injury_var \in InjuryTexts
    /\ injury_text \in InjuryNotes
    /\ style_var \in StyleTexts
    /\ responses = NoRecord
    /\ page = "none"
    /\ PageIdle
    /\ ScanIdle
    /\ GenIdle
    /\ AuxIdle
    /\ lastOp = "input"
    /\ fromIndex = LastIndex
    /\ nextFrom = NoIndex
    /\ shown = IF focus_var = "Full body"
               THEN Range(sections) \ {"goal_section"}
               ELSE Range(sections)
    /\ forward_numbers = << >>

NextFinalize == CollectResponses

SpecFinalize == InitFinalize /\ [][NextFinalize]_vars

(***************************************************************************)
(* Python string operations used by the plan code.  Positions are 0-based  *)
(* as in Python.                                                           *)
(***************************************************************************)
\* ch in cs
In(ch, cs) == \E k \in 1..Len(cs) : cs[k] = ch

\* cs.find(ch, from): the lowest position >= from holding ch, or -1
find(cs, ch, from) ==
    LET hits == {k \in from..(Len(cs) - 1) : cs[k + 1] = ch}
    IN  IF hits = {} THEN 0 - 1 ELSE CHOOSE k \in hits : \A h \in hits : k <= h

\* cs[i:j] for i >= 0; a negative j counts from the end, as Python's slices do
Slice(cs, i, j) ==
    LET hi == IF j < 0 THEN (IF Len(cs) + j < 0 THEN 0 ELSE Len(cs) + j)
              ELSE (IF j > Len(cs) THEN Len(cs) ELSE j)
    IN  IF i < hi THEN SubSeq(cs, i + 1, hi) ELSE <<>>

\* cs[i:]
SliceFrom(cs, i) == Slice(cs, i, Len(cs))

\* cs.startswith(prefix)
startswith(cs, prefix) == Len(cs) >= Len(prefix) /\ SubSeq(cs, 1, Len(prefix)) = prefix

\* cs.lstrip(ch)
RECURSIVE lstrip(_, _)
lstrip(cs, ch) == IF cs # <<>> /\ Head(cs) = ch THEN lstrip(Tail(cs), ch) ELSE cs

\* cs.replace(ch, '')
remove(cs, ch) == SelectSeq(cs, LAMBDA c : c # ch)

(***************************************************************************)
(* display_workout_plan: the line scan that fills the plan Text widget.    *)
(* An insert is the text and the tag of one self.plan_text.insert call;    *)
(* the inserts past MaxInserts are not recorded.                           *)
(***************************************************************************)
\* most inserts recorded for one plan
MaxInserts == 12

\* longest plan line drawn
MaxLineLen == 4

NL == "\n"

ScanChars == {"#", "-", "[", "]", "*", " ", "a"}

ScanLines == UNION {[1..k -> ScanChars] : k \in 0..MaxLineLen}

\* lines that precede or follow the line drawn from ScanLines
MoreLines == { <<>>, << "#", "a" >>, << "[", "a", "]" >> }

\* the plans drawn: one line, or two lines of which one is from MoreLines
ScanPlans ==
    {<< l >> : l \in ScanLines}
        \cup {<< l, m >> : l \in ScanLines, m \in MoreLines}
        \cup {<< m, l >> : l \in ScanLines, m \in MoreLines}

Insert(tag, text) == [tag |-> tag, text |-> text]

\* the bullet marker and the blank of "• "
BulletMark == << "(bullet)", " " >>

\* the branch of the if / elif chain a stripped line takes
LineBranch(stripped) ==
    LET l == remove(stripped, "*")
    IN  IF stripped = <<>> THEN "blank"
        ELSE IF startswith(l, << "#" >>) /\ ~startswith(l, << "#", "#" >>) THEN "header"
        ELSE IF startswith(l, << "#", "#" >>) THEN "subheader"
        ELSE IF In("[", l) /\ In("]", l) THEN "links"
        ELSE IF startswith(l, << "-" >>) THEN "bullet"
        ELSE "normal"

\* the inserts a branch makes at once (the bracket branch makes its own in the loop)
BranchInserts(branch, l) ==
    CASE branch = "blank"     -> << Insert("", << NL >>) >>
      [] branch = "header"    -> << Insert("header", strip(lstrip(l, "#")) \o << NL >>) >>
      [] branch = "subheader" -> << Insert("subheader", strip(lstrip(l, "#")) \o << NL >>) >>
      [] branch = "links"     -> << >>
      [] branch = "bullet"    ->
            << Insert("bullet", BulletMark \o strip(lstrip(l, "-")) \o << NL >>) >>
      [] branch = "normal"    -> << Insert("normal", l \o << NL >>) >>

\* the condition of the while loop
WhileBrackets(l, pos) == In("[", SliceFrom(l, pos)) /\ In("]", SliceFrom(l, pos))

\* the inserts of one pass of the while loop: the text before the name, the name
LoopInserts(l, pos) ==
    LET start == find(l, "[", pos)
        end == find(l, "]", start)
    IN  (IF start > pos THEN << Insert("", Slice(l, pos, start)) >> ELSE << >>)
            \o << Insert("link", Slice(l, start + 1, end)) >>

\* current_pos = end + 1
LoopNextPos(l, pos) == find(l, "]", find(l, "[", pos)) + 1

\* the inserts after the loop: the remaining text, the newline
RestInserts(l, pos) ==
    (IF pos < Len(l) THEN << Insert("", SliceFrom(l, pos)) >> ELSE << >>)
        \o << Insert("", << NL >>) >>

DoInserts(new) ==
    inserts' = IF Len(inserts \o new) <= MaxInserts THEN inserts \o new
               ELSE SubSeq(inserts \o new, 1, MaxInserts)

\* the for loop takes the next line up to the end of its branch, or up to the
\* while loop of the bracket branch
ScanLine ==
    /\ scan_pc = "lines"
    /\ line_no < Len(plan_lines)
    /\ line_no' = line_no + 1
    /\ line_start' = Len(inserts)
    /\ odd_pass' = FALSE
    /\ LET stripped == strip(plan_lines[line_no + 1])
           branch == LineBranch(stripped)
       IN  /\ line' = IF stripped = <<>> THEN stripped ELSE remove(stripped, "*")
           /\ line_class' = branch
           /\ current_pos' = IF branch = "links" THEN 0 ELSE current_pos
           /\ scan_pc' = IF branch = "links" THEN "brackets" ELSE "lines"
           /\ DoInserts(BranchInserts(branch, line'))
    /\ UNCHANGED << plan_lines, appVars, genVars, auxVars >>

\* one pass of the while loop
BracketPass ==
    /\ scan_pc = "brackets"
    /\ WhileBrackets(line, current_pos)
    /\ DoInserts(LoopInserts(line, current_pos))
    /\ current_pos' = LoopNextPos(line, current_pos)
    /\ odd_pass' = ~odd_pass
    /\ UNCHANGED << plan_lines, line_no, line, line_start, line_class, scan_pc, appVars, genVars, auxVars >>

\* the while condition is false: the remaining text and the newline
BracketExit ==
    /\ scan_pc = "brackets"
    /\ ~WhileBrackets(line, current_pos)
    /\ DoInserts(RestInserts(line, current_pos))
    /\ scan_pc' = "lines"
    /\ UNCHANGED << plan_lines, line_no, line, current_pos, line_start, line_class, odd_pass,
                    appVars, genVars, auxVars >>

\* the for loop is through: the widget is made read-only
ScanEnd ==
    /\ scan_pc = "lines"
    /\ line_no = Len(plan_lines)
    /\ scan_pc' = "done"
    /\ UNCHANGED << plan_lines, line_no, line, current_pos, inserts, line_start, line_class,
                    odd_pass, appVars, genVars, auxVars >>

(***************************************************************************)
(* SpecScan: display_workout_plan has reached its for loop with a plan     *)
(* text drawn from ScanPlans.  SpecScanLive adds that the loop, once it    *)
(* can take a step, takes it (the interpreter keeps running the handler).  *)
(***************************************************************************)
ScanAtLoop ==
    /\ line_no = 0
    /\ line = <<>>
    /\ current_pos = 0
    /\ inserts = <<>>
    /\ line_start = 0
    /\ line_class = "none"
    /\ odd_pass = FALSE
    /\ scan_pc = "lines"

InitScan ==
    /\ screen = "plan"
    /\ plan_file = NoFile
    /\ saved_plan = NoRecord
    /\ alt_file = NoFile
    /\ FormUnbuilt
    /\ responses = GeneratedRecord
    /\ page = "displayed"
    /\ PageIdle
    /\ GenIdle
    /\ AuxIdle
    /\ lastOp = "display"
    /\ fromIndex = 0
    /\ nextFrom = NoIndex
    /\ shown = {}
    /\ forward_numbers = << >>
    /\ plan_lines \in ScanPlans
    /\ ScanAtLoop

NextScan ==
    \/ ScanLine
    \/ BracketPass
    \/ BracketExit
    \/ ScanEnd

SpecScan == InitScan /\ [][NextScan]_vars

SpecScanLive == SpecScan /\ WF_vars(NextScan)

(***************************************************************************)
(* generate_and_display_plan step by step: the plan request, the for loop  *)
(* over the lines of the plan text with its instruction requests, and the  *)
(* storing of the result.  The responses of the model are inputs.          *)
(***************************************************************************)
\* most lines of a plan text drawn
MaxPlanLines == 3

\* plan lines: blank, one name, one name after a blank, two names, a name
\* after a stray ']', no name
GenLineSet ==
    { << >>, << "[", "a", "]" >>, << " ", "[", "b", "]" >>,
      << "[", "a", "]", "[", "b", "]" >>, << "]", "a", "[", "b", "]" >>, << "a" >> }

PlanTexts == UNION {[1..k -> GenLineSet] : k \in 1..MaxPlanLines}

\* model.generate_content(prompt): it raises, or returns the text with these lines
PlanOutcomes ==
    {[raises |-> TRUE, lines |-> << >>]} \cup {[raises |-> FALSE, lines |-> t] : t \in PlanTexts}

\* texts of an instruction response: empty, padded, plain
InstructionTexts == { << >>, << " ", "t" >>, << "u" >> }

\* model.generate_content(instruction_prompt): it raises, or returns a text
InstructionOutcomes ==
    {[raises |-> TRUE, text |-> << >>]}
        \cup {[raises |-> FALSE, text |-> t] : t \in InstructionTexts}

\* not response.text: '\n'.join(lines) is the empty string
EmptyText(lines) == lines = << << >> >>

NotAvailable == PyStr("Instructions not available.", << >>)

\* the value stored for a name after its instruction request
InstructionEntry(o) ==
    IF ~o.raises /\ o.text # << >> THEN PyStr("", strip(o.text)) ELSE NotAvailable

\* the line asks for an instruction: both brackets, the first '[' before the first ']'
AsksInstruction(l) == In("[", l) /\ In("]", l) /\ find(l, "[", 0) < find(l, "]", 0)

\* exercise_name = line[start + 1:end]
FirstName(l) == Slice(l, find(l, "[", 0) + 1, find(l, "]", 0))

\* the plan request; a raise or an empty text goes to the except branch, which
\* puts the error label into the loading frame
GenPlanRequest ==
    /\ gen_pc = "request"
    /\ \E r \in PlanOutcomes :
          IF r.raises \/ EmptyText(r.lines)
          THEN /\ gen_pc' = "failed"
               /\ page' = "error"
               /\ thread_log' = EndLog(TRUE, FALSE, 2, 0)
               /\ is_generating' = FALSE
               /\ threads' = << >>
               /\ UNCHANGED << gen_lines, gen_line_no, processed_lines, exercise_instructions >>
          ELSE /\ gen_pc' = "lines"
               /\ gen_lines' = r.lines
               /\ gen_line_no' = 0
               /\ processed_lines' = << >>
               /\ exercise_instructions' = << >>
               /\ thread_log' = NoLog
               /\ UNCHANGED << page, is_generating, threads >>
    /\ lastOp' = "thread"
    /\ UNCHANGED << screen, navVars, inputVars, fileVars, responses, start_timers,
                    display_timers, fromIndex, nextFrom, shown, forward_numbers, requests, scanVars, auxVars >>

\* one line of the for loop, with its instruction request if it asks for one
GenLine ==
    /\ gen_pc = "lines"
    /\ gen_line_no < Len(gen_lines)
    /\ gen_line_no' = gen_line_no + 1
    /\ LET l == strip(gen_lines[gen_line_no + 1])
       IN  /\ processed_lines' = Append(processed_lines, l)
           /\ IF l # << >> /\ AsksInstruction(l)
              THEN \E o \in InstructionOutcomes :
                      /\ exercise_instructions' =
                             SetItem(exercise_instructions, FirstName(l), InstructionEntry(o))
                      /\ requests' = Append(requests, [name |-> FirstName(l), outcome |-> o])
              ELSE UNCHANGED << exercise_instructions, requests >>
    /\ lastOp' = "thread"
    /\ thread_log' = NoLog
    /\ UNCHANGED << screen, navVars, inputVars, fileVars, responses, page, pageVars,
                    fromIndex, nextFrom, shown, forward_numbers, gen_pc, gen_lines, scanVars, auxVars >>

\* after the for loop: the keys are stored, the record saved, the progress bar
\* completed and display_workout_plan scheduled
GenStore ==
    /\ gen_pc = "lines"
    /\ gen_line_no = Len(gen_lines)
    /\ gen_pc' = "done"
    /\ responses' = StorePlan(responses)
    /\ \E primary_ok, alt_ok \in BOOLEAN :
          SaveWorkoutPlan(StorePlan(responses), primary_ok, alt_ok)
    /\ is_generating' = FALSE
    /\ display_timers' = display_timers + 1
    /\ threads' = << >>
    /\ thread_log' = EndLog(TRUE, TRUE, 2, 1)
    /\ lastOp' = "thread"
    /\ UNCHANGED << screen, navVars, inputVars, saved_plan, page, start_timers, fromIndex,
                    nextFrom, shown, forward_numbers, gen_lines, gen_line_no, processed_lines,
                    exercise_instructions, requests, scanVars, auxVars >>

\* the after(500) callback, up to the for loop of display_workout_plan: the
\* plan text is the joined processed lines, split again
DisplayGenerated ==
    /\ gen_pc = "done"
    /\ scan_pc = "idle"
    /\ display_timers > 0
    /\ display_timers' = display_timers - 1
    /\ page' = "displayed"
    /\ plan_lines' = processed_lines
    /\ scan_pc' = "lines"
    /\ lastOp' = "display"
    /\ thread_log' = NoLog
    /\ UNCHANGED << screen, navVars, inputVars, fileVars, responses, is_generating,
                    start_timers, threads, fromIndex, nextFrom, shown, forward_numbers, line_no, line,
                    current_pos, inserts, line_start, line_class, odd_pass, genVars, auxVars >>

(***************************************************************************)
(* SpecGenerate: the answers have been submitted, the thread of the first  *)
(* generation has been started, and the plan is displayed when it is done. *)
(***************************************************************************)
InitGenerate ==
    /\ screen = "plan"
    /\ plan_file = FileWith(json_dump(EarlierRecord))
    /\ saved_plan = NoRecord
    /\ alt_file = NoFile
    /\ current_section_index = LastIndex
    /\ back_packed = BackPacked(LastIndex)
    /\ next_packed = NextPacked(LastIndex)
    /\ submit_packed = SubmitPacked(LastIndex)
    /\ question_numbers = UpdateNumbering("")
    /\ focus_var = ""
    /\ muscle_frame_packed = FALSE
    /\ muscle_vars = NoMuscles
    /\ goal_var = ""
    /\ experience_var = ""
    /\ equipment_vars = NoEquipment
    /\ equipment_text = << >>
    /\ duration_var = InitialDuration
    /\ location_var = ""
    /\ injury_var = ""
    /\ injury_text = << >>
    /\ style_var = ""
    /\ responses = EarlierRecord
    /\ page = "loading"
    /\ is_generating = TRUE
    /\ start_timers = 0
    /\ display_timers = 0
    /\ threads = << Thread(FALSE, NoRecord) >>
    /\ thread_log = NoLog
    /\ lastOp = "start_generation"
    /\ fromIndex = LastIndex
    /\ nextFrom = NoIndex
    /\ shown = Range(sections)
    /\ forward_numbers = << >>
    /\ ScanIdle
    /\ AuxIdle
    /\ gen_pc = "request"
    /\ gen_lines = << >>
    /\ gen_line_no = 0
    /\ processed_lines = << >>
    /\ exercise_instructions = << >>
    /\ requests = << >>

NextGenerate ==
    \/ GenPlanRequest
    \/ GenLine
    \/ GenStore
    \/ DisplayGenerated
    \/ ScanLine
    \/ BracketPass
    \/ BracketExit
    \/ ScanEnd

SpecGenerate == InitGenerate /\ [][NextGenerate]_vars

(***************************************************************************)
(* SpecLoading: the loading screen of one generation.  The main thread     *)
(* runs the after() callbacks update_progress_bar and                      *)
(* update_loading_sentence, then display_workout_plan with its scan; the   *)
(* generation thread runs statement by statement next to them.  A callback *)
(* is one step: it is short, and the thread's statements between its own   *)
(* change none of the values it reads twice.                               *)
(***************************************************************************)
\* most lines of a plan text drawn
MaxLoadLines == 2

\* seconds between two update_progress_bar callbacks the model looks at
TickSeconds == 30

\* seconds after which the bar would be full
FullSeconds == 65

\* the bar's value while the plan is awaited, and when it is ready
WaitingValue == 95

ReadyValue == 100

\* canvas items before the first fill: the bar's background
FirstItems == 1

\* plan lines: no name, one name, a '[' that no ']' follows
LoadLineSet == { << "a" >>, << "[", "a", "]" >>, << "]", "[" >> }

LoadTexts == UNION {[1..k -> LoadLineSet] : k \in 1..MaxLoadLines}

\* model.generate_content(prompt): it raises, or returns the text with these lines
LoadOutcomes ==
    {[raises |-> TRUE, lines |-> << >>], [raises |-> FALSE, lines |-> << << >> >>]}
        \cup {[raises |-> FALSE, lines |-> t] : t \in LoadTexts}

\* the variables the thread and the callbacks share
SharedVariables ==
    {"responses", "progress_value", "progress_fill", "is_generating",
     "loading_sentence_active"}

\* min(95, (elapsed / 65.0) * 95), in whole numbers
ProgressAt(secs) ==
    IF (secs * WaitingValue) \div FullSeconds < WaitingValue
    THEN (secs * WaitingValue) \div FullSeconds ELSE WaitingValue

\* the main thread is inside no handler
MainLoopIdle == scan_pc \in {"idle", "done"}

\* the main thread writes the shared variables ws
ForegroundWrites(ws) ==
    /\ fg_writes' = IF threads # << >> THEN fg_writes \cup ws ELSE fg_writes
    /\ UNCHANGED bg_writes

\* the generation thread writes the shared variables ws
BackgroundWrites(ws) ==
    /\ bg_writes' = bg_writes \cup ws
    /\ UNCHANGED fg_writes

\* the after(16) callback
UpdateProgressBar ==
    /\ MainLoopIdle
    /\ progress_timer
    /\ IF ~is_generating
       THEN /\ progress_timer' = FALSE
            /\ UNCHANGED << elapsed, progress_value, progress_fill, fg_writes, bg_writes >>
       ELSE /\ elapsed' = elapsed + TickSeconds
            /\ progress_value' = ProgressAt(elapsed')
            /\ progress_fill' = progress_fill + 1
            /\ progress_timer' = (progress_value' < WaitingValue)
            /\ ForegroundWrites({"progress_value", "progress_fill"})
    /\ UNCHANGED << appVars, scanVars, genVars, persistVars, formatVars,
                    loading_sentence_active, sentence_timer >>

\* the after(5000) callback
UpdateLoadingSentence ==
    /\ MainLoopIdle
    /\ sentence_timer
    /\ IF ~loading_sentence_active
       THEN /\ sentence_timer' = FALSE
            /\ UNCHANGED << loading_sentence_active, fg_writes, bg_writes >>
       ELSE IF is_generating
       THEN /\ sentence_timer' = TRUE
            /\ UNCHANGED << loading_sentence_active, fg_writes, bg_writes >>
       ELSE /\ sentence_timer' = FALSE
            /\ loading_sentence_active' = FALSE
            /\ ForegroundWrites({"loading_sentence_active"})
    /\ UNCHANGED << appVars, scanVars, genVars, persistVars, formatVars, elapsed,
                    progress_value, progress_fill, progress_timer >>

loadingRest == << elapsed, progress_timer, sentence_timer >>

\* the plan request; a raise or an empty text goes to the except branch
LoadPlanRequest(o) ==
    /\ gen_pc = "request"
    /\ IF o.raises \/ EmptyText(o.lines)
       THEN /\ gen_pc' = "except"
            /\ UNCHANGED << gen_lines, gen_line_no, processed_lines, exercise_instructions >>
       ELSE /\ gen_pc' = "lines"
            /\ gen_lines' = o.lines
            /\ gen_line_no' = 0
            /\ processed_lines' = << >>
            /\ exercise_instructions' = << >>
    /\ lastOp' = "thread"
    /\ thread_log' = NoLog
    /\ UNCHANGED << screen, navVars, inputVars, fileVars, responses, page, pageVars,
                    fromIndex, nextFrom, shown, forward_numbers, requests, scanVars,
                    auxVars >>

\* after the for loop: the three keys are stored and the record is saved
LoadStore ==
    /\ gen_pc = "lines"
    /\ gen_line_no = Len(gen_lines)
    /\ gen_pc' = "bar"
    /\ responses' = StorePlan(responses)
    /\ \E primary_ok, alt_ok \in BOOLEAN :
          SaveWorkoutPlan(StorePlan(responses), primary_ok, alt_ok)
    /\ BackgroundWrites({"responses"})
    /\ lastOp' = "thread"
    /\ thread_log' = NoLog
    /\ UNCHANGED << screen, navVars, inputVars, saved_plan, page, pageVars, fromIndex,
                    nextFrom, shown, forward_numbers, gen_lines, gen_line_no,
                    processed_lines, exercise_instructions, requests, scanVars,
                    persistVars, formatVars, loadingRest, progress_value, progress_fill,
                    loading_sentence_active >>

\* self.progress_value = 100 and the full fill
LoadCompleteBar ==
    /\ gen_pc = "bar"
    /\ gen_pc' = "stop"
    /\ progress_value' = ReadyValue
    /\ progress_fill' = progress_fill + 1
    /\ BackgroundWrites({"progress_value", "progress_fill"})
    /\ lastOp' = "thread"
    /\ thread_log' = NoLog
    /\ UNCHANGED << screen, navVars, inputVars, fileVars, responses, page, pageVars,
                    fromIndex, nextFrom, shown, forward_numbers, gen_lines, gen_line_no,
                    processed_lines, exercise_instructions, requests, scanVars,
                    persistVars, formatVars, loadingRest, loading_sentence_active >>

\* self.is_generating = False, on the success path and in the except branch
LoadStopGenerating ==
    /\ gen_pc \in {"stop", "except"}
    /\ gen_pc' = IF gen_pc = "stop" THEN "schedule" ELSE "notice"
    /\ is_generating' = FALSE
    /\ BackgroundWrites({"is_generating"})
    /\ lastOp' = "thread"
    /\ thread_log' = NoLog
    /\ UNCHANGED << screen, navVars, inputVars, fileVars, responses, page, start_timers,
                    display_timers, threads, fromIndex, nextFrom, shown, forward_numbers,
                    gen_lines, gen_line_no, processed_lines, exercise_instructions,
                    requests, scanVars, persistVars, formatVars, loadingRest,
                    progress_value, progress_fill, loading_sentence_active >>

\* self.loading_sentence_active = False, then the after(500) of the success
\* path or the error label of the except branch; the thread ends
LoadEnd ==
    /\ gen_pc \in {"schedule", "notice"}
    /\ loading_sentence_active' = FALSE
    /\ BackgroundWrites({"loading_sentence_active"})
    /\ IF gen_pc = "schedule"
       THEN /\ gen_pc' = "done"
            /\ display_timers' = display_timers + 1
            /\ thread_log' = EndLog(TRUE, TRUE, 2, 1)
            /\ UNCHANGED page
       ELSE /\ gen_pc' = "failed"
            /\ page' = "error"
            /\ thread_log' = EndLog(TRUE, FALSE, 2, 0)
            /\ UNCHANGED display_timers
    /\ threads' = << >>
    /\ lastOp' = "thread"
    /\ UNCHANGED << screen, navVars, inputVars, fileVars, responses, is_generating,
                    start_timers, fromIndex, nextFrom, shown, forward_numbers, gen_lines,
                    gen_line_no, processed_lines, exercise_instructions, requests,
                    scanVars, persistVars, formatVars, loadingRest, progress_value,
                    progress_fill >>

\* the steps of the generation thread
LoadThread ==
    \/ \E o \in LoadOutcomes : LoadPlanRequest(o)
    \/ GenLine
    \/ LoadStore
    \/ LoadCompleteBar
    \/ LoadStopGenerating
    \/ LoadEnd

\* the steps of the main thread
LoadForeground ==
    \/ UpdateProgressBar
    \/ UpdateLoadingSentence
    \/ DisplayGenerated
    \/ ScanLine
    \/ BracketPass
    \/ BracketExit
    \/ ScanEnd

\* show_loading_screen has run and the thread has been started
InitLoading ==
    /\ screen = "plan"
    /\ plan_file = FileWith(json_dump(EarlierRecord))
    /\ saved_plan = NoRecord
    /\ alt_file = NoFile
    /\ FormUnbuilt
    /\ responses = EarlierRecord
    /\ page = "loading"
    /\ is_generating = TRUE
    /\ start_timers = 0
    /\ display_timers = 0
    /\ threads = << Thread(FALSE, NoRecord) >>
    /\ thread_log = NoLog
    /\ lastOp = "start_generation"
    /\ fromIndex = 0
    /\ nextFrom = NoIndex
    /\ shown = {}
    /\ forward_numbers = << >>
    /\ ScanIdle
    /\ gen_pc = "request"
    /\ gen_lines = << >>
    /\ gen_line_no = 0
    /\ processed_lines = << >>
    /\ exercise_instructions = << >>
    /\ requests = << >>
    /\ PersistIdle
    /\ FormatIdle
    /\ elapsed = 0
    /\ progress_value = ProgressAt(0)
    /\ progress_fill = FirstItems + 1
    /\ progress_timer = TRUE
    /\ loading_sentence_active = TRUE
    /\ sentence_timer = TRUE
    /\ fg_writes = {}
    /\ bg_writes = {}

NextLoading ==
    \/ \E o \in LoadOutcomes : LoadPlanRequest(o)
    \/ GenLine
    \/ LoadStore
    \/ LoadCompleteBar
    \/ LoadStopGenerating
    \/ LoadEnd
    \/ UpdateProgressBar
    \/ UpdateLoadingSentence
    \/ DisplayGenerated
    \/ ScanLine
    \/ BracketPass
    \/ BracketExit
    \/ ScanEnd

SpecLoading == InitLoading /\ [][NextLoading]_vars

\* the thread is scheduled as long as it can run, and the main loop runs
\* the callbacks that are due and the handler it is in
SpecLoadingLive == SpecLoading /\ WF_vars(LoadThread) /\ WF_vars(LoadForeground)

(***************************************************************************)
(* SpecPersist: save_workout_plan statement by statement on a record, and  *)
(* the load_saved_plan of the next start of the program.                   *)
(***************************************************************************)
\* a record with a list, a None and typed text among its answers
AnsweredRecord ==
    BuildResponses("Target muscle group", [m \in Range(muscle_list) |-> TRUE], "Build muscle",
                   "Advanced", [e \in Range(equipment_list) |-> e = "Dumbbells"], << >>,
                   InitialDuration, "Gym", "No", << "b" >>, "HIIT")

\* the records the program saves: the answers at submission, the answers with
\* a generated plan
SaveRecords == {EarlierRecord, AnsweredRecord, GeneratedRecord, StorePlan(AnsweredRecord)}

\* everything of the application but the two files
notFileVars ==
    << screen, navVars, inputVars, saved_plan, responses, page, pageVars, thread_log, histVars >>

\* save_workout_plan(plan) is called
SaveBegin(plan) ==
    /\ save_pc \in {"idle", "loaded"}
    /\ save_pc' = "primary"
    /\ save_arg' = plan
    /\ save_log' = NoSaveLog
    /\ loaded' = NoRecord
    /\ UNCHANGED << appVars, scanVars, genVars, formatVars, loadingVars >>

\* as AfterPrimary, with the except branch left without the alternative write
AfterPrimaryNoAlternative(ok) == IF ok THEN "sync" ELSE "returned"

\* where save_workout_plan goes on after the primary write: on in the try
\* block, or into the except branch
AfterPrimary(ok) == IF ok THEN "sync" ELSE "alt"

\* open(plan_path, 'w') and json.dump(plan, f): done, or an exception
SavePrimary(ok) ==
    /\ save_pc = "primary"
    /\ plan_file' = IF ok THEN FileWith(json_dump(save_arg)) ELSE plan_file
    /\ save_log' = [save_log EXCEPT !.primary = IF ok THEN "ok" ELSE "raised"]
    /\ save_pc' = AfterPrimary(ok)
    /\ UNCHANGED << notFileVars, alt_file, save_arg, loaded, scanVars, genVars, formatVars, loadingVars >>

\* git_sync(...): it catches every exception of its three git commands and
\* returns True or False, which save_workout_plan drops
GitSync ==
    /\ save_pc \in {"sync", "alt_sync"}
    /\ save_log' = [save_log EXCEPT !.syncs = @ + 1]
    /\ save_pc' = "returned"
    /\ UNCHANGED << appVars, save_arg, loaded, scanVars, genVars, formatVars, loadingVars >>

\* the except branch: open(alt_path, 'w') and json.dump(plan, f); an exception
\* of these is printed and save_workout_plan returns
SaveAlternative(ok) ==
    /\ save_pc = "alt"
    /\ alt_file' = IF ok THEN FileWith(json_dump(save_arg)) ELSE alt_file
    /\ save_log' = [save_log EXCEPT !.alt = IF ok THEN "ok" ELSE "raised",
                                    !.alt_attempts = @ + 1]
    /\ save_pc' = IF ok THEN "alt_sync" ELSE "returned"
    /\ UNCHANGED << notFileVars, plan_file, save_arg, loaded, scanVars, genVars, formatVars, loadingVars >>

\* the next start: self.saved_plan = self.load_saved_plan()
LoadSavedPlan(read_ok) ==
    /\ save_pc = "returned"
    /\ loaded' = load_saved_plan(plan_file, read_ok)
    /\ save_log' = [save_log EXCEPT !.read = IF read_ok THEN "ok" ELSE "raised"]
    /\ save_pc' = "loaded"
    /\ UNCHANGED << appVars, save_arg, scanVars, genVars, formatVars, loadingVars >>

InitPersist ==
    /\ screen = "loading"
    /\ plan_file \in {NoFile, FileWith(json_dump(EarlierRecord))}
    /\ alt_file = NoFile
    /\ saved_plan = NoRecord
    /\ FormUnbuilt
    /\ responses = NoRecord
    /\ page = "none"
    /\ PageIdle
    /\ lastOp = "init"
    /\ fromIndex = 0
    /\ nextFrom = NoIndex
    /\ shown = {}
    /\ forward_numbers = << >>
    /\ ScanIdle
    /\ GenIdle
    /\ AuxIdle

NextPersist ==
    \/ \E plan \in SaveRecords : SaveBegin(plan)
    \/ \E ok \in BOOLEAN : SavePrimary(ok)
    \/ GitSync
    \/ \E ok \in BOOLEAN : SaveAlternative(ok)
    \/ \E read_ok \in BOOLEAN : LoadSavedPlan(read_ok)

SpecPersist == InitPersist /\ [][NextPersist]_vars

(***************************************************************************)
(* ExerciseInstructionPopup: the formatting of an instruction text into    *)
(* the popup's Text widget.  Lines are sequences of characters; an insert  *)
(* is the text and the tag of one self.text_widget.insert call.            *)
(***************************************************************************)
\* most lines of an instruction text drawn
MaxFormatLines == 4

\* longest title the heading pattern accepts
MaxTitleLen == 40

DigitChars == {"1", "2"}

LetterChars == {"a", "b"}

\* \s of the alphabet drawn
SpaceChars == {" "}

\* [A-Za-z ]
TitleChars == LetterChars \cup {" "}

\* the lines drawn: blank lines, a line of markers only, plain lines,
\* headings (bare, with blanks, ending in '.', wrapped in markers, with a
\* blank for title) and numbered lines the pattern rejects
FormatLineSet ==
    { << >>,
      << " " >>,
      << "*", "*" >>,
      << "a" >>,
      << " ", "b", " " >>,
      << "1", ".", "a", ":" >>,
      << "2", ".", " ", "b", "." >>,
      << "*", "1", "2", ".", " ", "a", " ", "b", ":", "*" >>,
      << "#", " ", "1", ".", " ", ":" >>,
      << "1", ".", "a" >>,
      << "1", ".", ":" >>,
      << "a", ":" >>,
      << "1", ".", "2", ":" >> }

FormatTexts == UNION {[1..k -> FormatLineSet] : k \in 0..MaxFormatLines}

\* re.sub(r'[\*#]+', '', s).strip()
CleanLine(s) == strip(remove(remove(s, "*"), "#"))

RECURSIVE CleanAll(_)
CleanAll(ls) == IF ls = << >> THEN << >> ELSE << CleanLine(Head(ls)) >> \o CleanAll(Tail(ls))

\* sections: the cleaned copies of the lines that are not blank
Sections(ls) == CleanAll(SelectSeq(ls, LAMBDA s : strip(s) # << >>))

\* ([A-Za-z ]{1,40}?) preceded by \s*: some blanks, then the title
TitleMatch(m) ==
    \E j \in 0..(Len(m) - 1) :
        /\ \A i \in 1..j : m[i] \in SpaceChars
        /\ \A i \in (j + 1)..Len(m) : m[i] \in TitleChars
        /\ Len(m) - j <= MaxTitleLen

\* numbered_heading.match(s): ^(\d+)\.\s*([A-Za-z ]{1,40}?)(:|\.)$
numbered_heading(s) ==
    \E k \in 1..Len(s) :
        /\ \A i \in 1..k : s[i] \in DigitChars
        /\ Len(s) >= k + 3
        /\ s[k + 1] = "."
        /\ s[Len(s)] \in {":", "."}
        /\ TitleMatch(SubSeq(s, k + 2, Len(s) - 1))

\* heading_indices, as positions counted from 1
HeadingIndices(secs) == {i \in 1..Len(secs) : numbered_heading(secs[i])}

\* first_heading_idx and last_heading_idx; 0 stands for None
FirstHeading(secs) ==
    LET H == HeadingIndices(secs)
    IN  IF H = {} THEN 0 ELSE CHOOSE i \in H : \A h \in H : i <= h

LastHeading(secs) ==
    LET H == HeadingIndices(secs)
    IN  IF H = {} THEN 0 ELSE CHOOSE i \in H : \A h \in H : h <= i

\* intro_lines
IntroLines(secs) ==
    IF FirstHeading(secs) # 0 THEN SubSeq(secs, 1, FirstHeading(secs) - 1) ELSE secs

\* the while loop that looks for the end of the last heading's bullets
RECURSIVE OutroStart(_, _)
OutroStart(secs, idx) ==
    IF idx <= Len(secs) /\ ~numbered_heading(secs[idx]) THEN OutroStart(secs, idx + 1) ELSE idx

\* outro_lines
OutroLines(secs) ==
    IF LastHeading(secs) # 0
    THEN SubSeq(secs, OutroStart(secs, LastHeading(secs) + 1), Len(secs))
    ELSE << >>

\* " ".join(ls)
RECURSIVE JoinLines(_)
JoinLines(ls) ==
    IF ls = << >> THEN << >>
    ELSE IF Len(ls) = 1 THEN Head(ls)
    ELSE Head(ls) \o << " " >> \o JoinLines(Tail(ls))

\* a bullet that is inserted whatever it holds: used to compare the test
IsBulletAlways(bullet, section) == TRUE

\* if bullet and bullet != section
IsBullet(bullet, section) == bullet # << >> /\ bullet # section

\* the inner while loop: the bullets under the heading `section`; yields
\* the inserts made and the idx the loop ends with
RECURSIVE BulletLoop(_, _, _)
BulletLoop(secs, idx, section) ==
    IF idx <= Len(secs) /\ ~numbered_heading(secs[idx])
    THEN LET rest == BulletLoop(secs, idx + 1, section)
         IN  [ins |-> (IF IsBullet(secs[idx], section)
                       THEN << Insert("bullet", BulletMark \o secs[idx] \o << NL >>) >>
                       ELSE << >>) \o rest.ins,
              idx |-> rest.idx]
    ELSE [ins |-> << >>, idx |-> idx]

\* the outer while loop: the headings with their bullets
RECURSIVE HeadingLoop(_, _)
HeadingLoop(secs, idx) ==
    IF idx > Len(secs) THEN << >>
    ELSE IF numbered_heading(secs[idx])
    THEN LET bullets == BulletLoop(secs, idx + 1, secs[idx])
         IN  << Insert("header", secs[idx] \o << NL >>) >> \o bullets.ins
                 \o HeadingLoop(secs, bullets.idx)
    ELSE HeadingLoop(secs, idx + 1)

\* the inserts of ExerciseInstructionPopup.__init__ for the lines ls
FormatInstructions(ls) ==
    LET secs  == Sections(ls)
        intro == IntroLines(secs)
        outro == OutroLines(secs)
        start == IF FirstHeading(secs) # 0 THEN FirstHeading(secs) ELSE Len(secs) + 1
    IN  (IF intro # << >>
         THEN << Insert("normal", JoinLines(intro) \o << NL, NL >>) >> ELSE << >>)
        \o HeadingLoop(secs, start)
        \o (IF outro # << >>
            THEN << Insert("normal", << NL >> \o JoinLines(outro) \o << NL >>) >> ELSE << >>)

\* ExerciseInstructionPopup(self, name, instructions): a link is clicked;
\* the popup takes the grab, so no second one opens before it is closed
OpenPopup ==
    /\ ~popup_open
    /\ popup_open' = TRUE
    /\ popup_inserts' = FormatInstructions(instructions)
    /\ UNCHANGED << appVars, scanVars, genVars, persistVars, loadingVars, instructions >>

\* the popup's Close button: self.destroy()
ClosePopup ==
    /\ popup_open
    /\ popup_open' = FALSE
    /\ popup_inserts' = << >>
    /\ UNCHANGED << appVars, scanVars, genVars, persistVars, loadingVars, instructions >>

InitFormat ==
    /\ screen = "plan"
    /\ plan_file = NoFile
    /\ alt_file = NoFile
    /\ saved_plan = NoRecord
    /\ FormUnbuilt
    /\ responses = GeneratedRecord
    /\ page = "displayed"
    /\ PageIdle
    /\ lastOp = "display"
    /\ fromIndex = 0
    /\ nextFrom = NoIndex
    /\ shown = {}
    /\ forward_numbers = << >>
    /\ ScanIdle
    /\ GenIdle
    /\ PersistIdle
    /\ LoadingIdle
    /\ instructions \in FormatTexts
    /\ popup_inserts = << >>
    /\ popup_open = FALSE

NextFormat == OpenPopup \/ ClosePopup

SpecFormat == InitFormat /\ [][NextFormat]_vars

(***************************************************************************)
(* Properties of the wizard navigation (checked under Spec).               *)
(***************************************************************************)

\* C1: Next from an index below the last moves to index + 2 exactly when the
\* index is 0 and the focus answer is exactly "Full body", and to index + 1 in
\* every other case (any other index, any other focus text).
C1_NextStep ==
    (lastOp = "next" /\ fromIndex < LastIndex) =>
        current_section_index =
            IF fromIndex = 0 /\ focus_var = "Full body" THEN fromIndex + 2 ELSE fromIndex + 1

\* Next has just skipped from index 0 to index 2 under "Full body".
C1_Witness ==
    /\ lastOp = "next"
    /\ fromIndex = 0
    /\ focus_var = "Full body"
    /\ current_section_index = 2

\* C2: Back from an index above 0 moves to index - 2 exactly when the index is
\* 2 and the focus answer is exactly "Full body", and to index - 1 otherwise.
C2_BackStep ==
    (lastOp = "back" /\ fromIndex > 0) =>
        current_section_index =
            IF fromIndex = 2 /\ focus_var = "Full body" THEN fromIndex - 2 ELSE fromIndex - 1

\* Back has just skipped from index 2 to index 0 under "Full body".
C2_Witness ==
    /\ lastOp = "back"
    /\ fromIndex = 2
    /\ focus_var = "Full body"
    /\ current_section_index = 0

\* C3: Next immediately followed by Back (no answer changed in between)
\* returns to the index the Next started from, the skip 0 -> 2 -> 0 included.
C3_RoundTrip ==
    (lastOp = "back" /\ nextFrom # NoIndex) => current_section_index = nextFrom

\* The round trip 0 -> 2 -> 0 across the skip has just been made.
C3_Witness ==
    /\ lastOp = "back"
    /\ nextFrom = 0
    /\ fromIndex = 2
    /\ focus_var = "Full body"
    /\ current_section_index = 0

\* C4: whatever Next, Back and focus changes have happened, the index is within
\* [0, len(sections) - 1]; the Next handler at the last index and the Back
\* handler at index 0 leave the index as it is.
C4_IndexInRange ==
    /\ current_section_index \in 0..LastIndex
    /\ current_section_index = LastIndex =>
          NextSectionIndex(current_section_index, focus_var) = current_section_index
    /\ current_section_index = 0 =>
          PreviousSectionIndex(current_section_index, focus_var) = current_section_index

\* The last index has been reached by a Next under "Full body".
C4_Witness ==
    /\ lastOp = "next"
    /\ focus_var = "Full body"
    /\ current_section_index = LastIndex
    /\ fromIndex = LastIndex - 1

\* C5: with the focus answer "Full body", every question section other than a
\* muscle-group step (goal, experience, equipment, duration, location, injuries,
\* style) has been shown on the way from the first section to the submit
\* section.
C5_OnlyMuscleStepBypassed ==
    (screen = "form" /\ submit_packed /\ focus_var = "Full body") =>
        (Range(sections) \ {"focus_section"}) \subseteq shown

\* C10: collect_responses is triggered only from the last index: the submit
\* frame is packed only there, and every submission was made there.
C10_SubmitOnlyAtLast ==
    /\ (screen = "form" /\ submit_packed) => current_section_index = LastIndex
    /\ lastOp = "submit" => fromIndex = LastIndex

\* A submission has just been made, from the last index.
C10_Witness ==
    /\ lastOp = "submit"
    /\ fromIndex = LastIndex
    /\ screen = "plan"
    /\ page = "loading"

(***************************************************************************)
(* Properties of collect_responses (C6 under Spec, the others under        *)
(* SpecFinalize).                                                          *)
(***************************************************************************)
NoEquipmentChecked == \A eq \in Range(equipment_list) : ~equipment_vars[eq]

NoMuscleChecked == \A m \in Range(muscle_list) : ~muscle_vars[m]

\* no input was given on any step: every widget is as show_main_form built it
NoInputGiven ==
    /\ focus_var = ""
    /\ NoMuscleChecked
    /\ goal_var = ""
    /\ experience_var = ""
    /\ NoEquipmentChecked
    /\ equipment_text = <<>>
    /\ duration_var = InitialDuration
    /\ location_var = ""
    /\ injury_var = ""
    /\ injury_text = <<>>
    /\ style_var = ""

BodyweightOnly == PyList(<< << "Bodyweight only", <<>> >> >>)

\* the documented default of every key
DocumentedDefault(k) ==
    CASE k = "Workout Focus" -> PyStr("Full body", <<>>)
      [] k = "Muscle Groups" -> PyNone
      [] k = "Goal"          -> PyStr("General fitness", <<>>)
      [] k = "Experience"    -> PyStr("Beginner", <<>>)
      [] k = "Equipment"     -> BodyweightOnly
      [] k = "Duration"      -> PyStr("60 minutes", <<>>)
      [] k = "Location"      -> PyStr("Home", <<>>)
      [] k = "Injuries"      -> PyNone
      [] k = "Workout Style" -> PyStr("Traditional sets", <<>>)

\* C6: submitting with no input given on any step produces the record in which
\* every key has its documented default (Duration "60 minutes" among them).
C6_EmptyInputDefaults ==
    (lastOp = "submit" /\ NoInputGiven) =>
        \A k \in Keys : responses[k] = DocumentedDefault(k)

\* C7: whatever the other answers are, submitting with no equipment checkbox
\* selected produces a record whose Equipment is exactly ["Bodyweight only"].
C7_UnsetEquipment ==
    (lastOp = "submit" /\ NoEquipmentChecked) => responses["Equipment"] = BodyweightOnly

\* Submitted with no equipment selected while other answers (and a leftover
\* equipment text) were given.
C7_Witness ==
    /\ lastOp = "submit"
    /\ NoEquipmentChecked
    /\ equipment_text # <<>>
    /\ goal_var # ""
    /\ focus_var = "Target muscle group"
    /\ responses["Equipment"] = BodyweightOnly

\* C8: with "Other" selected and non-blank text entered, the Equipment list
\* holds "Other: <text>" (the text stripped of surrounding blanks), no bare
\* "Other", and every other selected item.
C8_OtherMerged ==
    (lastOp = "submit" /\ equipment_vars["Other"] /\ strip(equipment_text) # <<>>) =>
        LET got == Range(responses["Equipment"].l)
        IN  /\ responses["Equipment"].t = "list"
            /\ << "Other: ", strip(equipment_text) >> \in got
            /\ << "Other", <<>> >> \notin got
            /\ \A eq \in Range(equipment_list) \ {"Other"} :
                   equipment_vars[eq] => << eq, <<>> >> \in got

\* Submitted with "Other" and "Dumbbells" selected and the text " b".
C8_Witness ==
    /\ lastOp = "submit"
    /\ equipment_vars["Other"]
    /\ equipment_vars["Dumbbells"]
    /\ equipment_text = << " ", "b" >>
    /\ responses["Equipment"].l = << << "Dumbbells", <<>> >>, << "Other: ", << "b" >> >> >>

\* the input of key k was left blank (the duration slider always has a value)
LeftBlank(k) ==
    CASE k = "Workout Focus" -> focus_var = ""
      [] k = "Muscle Groups" -> NoMuscleChecked
      [] k = "Goal"          -> goal_var = ""
      [] k = "Experience"    -> experience_var = ""
      [] k = "Equipment"     -> NoEquipmentChecked
      [] k = "Duration"      -> FALSE
      [] k = "Location"      -> location_var = ""
      [] k = "Injuries"      -> injury_var = "" /\ injury_text = <<>>
      [] k = "Workout Style" -> style_var = ""

\* C9: for every combination of raw inputs the record holds all nine keys, and
\* each key whose input was left blank holds its default, not an empty value.
C9_AllKeysDefaulted ==
    lastOp = "submit" =>
        /\ DOMAIN responses = Keys
        /\ \A k \in Keys : LeftBlank(k) => responses[k] = DocumentedDefault(k)

(***************************************************************************)
(* Properties of the line scan of display_workout_plan (C11, C12 under     *)
(* SpecScan, C13 under SpecScanLive).                                      *)
(***************************************************************************)
\* the line the for loop last took, as the plan holds it
RawLine == plan_lines[line_no]

\* that line trimmed and without its '*' characters: the text the rules look at
ScannedLine == remove(strip(RawLine), "*")

\* the inserts made for that line so far
LineInserts == SubSeq(inserts, line_start + 1, Len(inserts))

\* the line holds a bracketed name: a '[' with a ']' somewhere after it
HasBracketedName(l) == \E i, j \in 1..Len(l) : i < j /\ l[i] = "[" /\ l[j] = "]"

\* the class the priority rules give a line
RuleClass(raw) ==
    LET l == remove(strip(raw), "*")
    IN  IF strip(raw) = <<>> THEN "blank"
        ELSE IF startswith(l, << "#" >>) /\ ~startswith(l, << "#", "#" >>) THEN "header"
        ELSE IF startswith(l, << "#", "#" >>) THEN "subheader"
        ELSE IF HasBracketedName(l) THEN "links"
        ELSE IF startswith(l, << "-" >>) THEN "bullet"
        ELSE "normal"

\* C11: every line takes the class of the first rule that matches it, in the
\* order: blank line -> a break with no content; one leading '#' -> Header;
\* leading '##' -> Subheader; a bracketed name in the line -> ExerciseLink
\* segments with plain text around them; leading '-' -> Bullet without its '-';
\* otherwise one PlainText segment holding the line.
C11_FirstMatchingRule ==
    line_no >= 1 =>
        /\ line_class = RuleClass(RawLine)
        /\ scan_pc # "brackets" =>
              CASE RuleClass(RawLine) = "blank" ->
                      LineInserts = << Insert("", << NL >>) >>
                [] RuleClass(RawLine) = "header" ->
                      Len(LineInserts) = 1 /\ LineInserts[1].tag = "header"
                [] RuleClass(RawLine) = "subheader" ->
                      Len(LineInserts) = 1 /\ LineInserts[1].tag = "subheader"
                [] RuleClass(RawLine) = "links" ->
                      /\ \E k \in 1..Len(LineInserts) : LineInserts[k].tag = "link"
                      /\ \A k \in 1..Len(LineInserts) : LineInserts[k].tag \in {"", "link"}
                [] RuleClass(RawLine) = "bullet" ->
                      LineInserts =
                          << Insert("bullet",
                                    BulletMark \o strip(lstrip(ScannedLine, "-")) \o << NL >>) >>
                [] RuleClass(RawLine) = "normal" ->
                      LineInserts = << Insert("normal", ScannedLine \o << NL >>) >>

\* the segments of a line from position pos on: every bracketed name as a link,
\* the characters before, between and after the names as plain text
RECURSIVE NameSegments(_, _)
NameSegments(l, pos) ==
    LET open == find(l, "[", pos)
        close == IF open < 0 THEN 0 - 1 ELSE find(l, "]", open)
    IN  IF close < 0
        THEN (IF pos < Len(l) THEN << Insert("", SliceFrom(l, pos)) >> ELSE << >>)
        ELSE (IF open > pos THEN << Insert("", Slice(l, pos, open)) >> ELSE << >>)
                 \o << Insert("link", Slice(l, open + 1, close)) >>
                 \o NameSegments(l, close + 1)

\* C12: for a line that holds bracketed names (and is no header), the scan
\* emits every bracketed name as a link carrying the name without its brackets
\* and the characters before, between and after the names as plain text, in the
\* order of the line, for any number of names; then the line break.
C12_EveryBracketedName ==
    (line_no >= 1 /\ RuleClass(RawLine) = "links") =>
        LET want == NameSegments(ScannedLine, 0) \o << Insert("", << NL >>) >>
        IN  /\ Len(LineInserts) <= Len(want)
            /\ LineInserts = SubSeq(want, 1, Len(LineInserts))
            /\ scan_pc # "brackets" => LineInserts = want

\* C13: the scan ends on every plan text, whatever the placement of '[' and ']'
\* in its lines.
C13_ScanTerminates == <>(scan_pc = "done")

(***************************************************************************)
(* Properties of the instruction requests (checked under SpecGenerate).    *)
(***************************************************************************)
\* the request failed: it raised or returned an empty text
RequestFailed(o) == o.raises \/ o.text = << >>

\* C14: after a generation, the instruction map has one entry per requested
\* name; a name whose request failed or returned an empty text maps to
\* "Instructions not available.", every other name to the text returned for it
\* (trimmed); and no failing instruction request makes the generation fail.
C14_FailuresIsolated ==
    /\ gen_pc = "done" =>
          /\ DOMAIN exercise_instructions = {requests[i].name : i \in DOMAIN requests}
          /\ \A i \in DOMAIN requests :
                exercise_instructions[requests[i].name] =
                    IF RequestFailed(requests[i].outcome)
                    THEN NotAvailable
                    ELSE PyStr("", strip(requests[i].outcome.text))
    /\ requests # << >> => gen_pc # "failed"

\* C15: every name the scan has rendered as an exercise link is a key of the
\* instruction map stored with the plan.
C15_LinksHaveEntries ==
    scan_pc # "idle" =>
        \A k \in DOMAIN inserts :
            inserts[k].tag = "link" => inserts[k].text \in DOMAIN exercise_instructions

\* the bracketed names of a line
LineNames(l) ==
    {NameSegments(l, 0)[k].text :
        k \in {j \in DOMAIN NameSegments(l, 0) : NameSegments(l, 0)[j].tag = "link"}}

\* the distinct exercise names of a plan text
PlanNames(lines) == UNION {LineNames(strip(lines[i])) : i \in DOMAIN lines}

\* C16: one generation issues exactly one instruction request for each
\* distinct exercise name of the plan text: as many requests as distinct names,
\* no name twice.
C16_OneRequestPerName ==
    gen_pc = "done" =>
        /\ Len(requests) = Cardinality(PlanNames(gen_lines))
        /\ \A i, j \in DOMAIN requests : i # j => requests[i].name # requests[j].name

(***************************************************************************)
(* Properties of the plan page's generations (checked under Spec).         *)
(***************************************************************************)
\* nothing of the page is pending: no callback, no thread of the page
PageQuiet ==
    /\ start_timers = 0
    /\ display_timers = 0
    /\ \A i \in DOMAIN threads : threads[i].stale

\* the plan page shows the fallback plan
FallbackShown ==
    /\ page = "displayed"
    /\ HasKey(responses, "plan_text")
    /\ responses["plan_text"] = FallbackPlan

\* C17: when the plan request of a generation raises or returns an empty
\* text, no instruction request is made, and once nothing of the page is
\* pending the page displays the fallback plan; on every path that starts a
\* generation (submission, Refresh, start-up).
C17_FallbackPlanShown ==
    (thread_log.ended /\ thread_log.on_page /\ ~thread_log.plan_ok) =>
        /\ ~thread_log.instruction_loop
        /\ (screen = "plan" /\ PageQuiet) => FallbackShown

\* the Refresh and New Plan buttons are packed
ButtonsPacked == screen = "plan" /\ page = "displayed"

\* C18: after a failed generation Refresh is available again: whenever the
\* plan page has nothing pending (no callback, no thread of its own), its
\* Refresh and New Plan buttons are there.
C18_UsableAfterFailure == (screen = "plan" /\ PageQuiet) => ButtonsPacked

\* generations started and not yet ended: scheduled or running
InFlight == start_timers + Len(threads)

\* C19: at most one generation is in flight, and while one is in flight no
\* action that starts another (Refresh, submission) is offered.
C19_OneGenerationInFlight ==
    /\ InFlight <= 1
    /\ InFlight >= 1 => /\ ~ButtonsPacked
                        /\ ~(screen = "form" /\ submit_packed)

\* C20: a background thread, whether it succeeds or fails, makes no widget
\* call itself and schedules exactly one notification onto the foreground loop.
C20_OnlyNotifies ==
    thread_log.ended =>
        /\ thread_log.display_updates = 0
        /\ thread_log.notifications = 1

(***************************************************************************)
(* Properties of the question numbers (checked under Spec).                *)
(***************************************************************************)
\* C25: whatever the focus answer, the section shown at index k >= 1 displays
\* k + 2 when the focus answer is "Target muscle group" (goal 3 ... style 9)
\* and k + 1 otherwise (goal 2 ... style 8).
C25_StepNumbers ==
    (screen = "form" /\ current_section_index >= 1) =>
        DisplayedNumber(question_numbers, current_section_index) =
            IF focus_var = "Target muscle group"
            THEN current_section_index + 2
            ELSE current_section_index + 1

\* the last section is shown on the "Target muscle group" path, numbered 9
C25_Witness ==
    /\ screen = "form"
    /\ current_section_index = LastIndex
    /\ focus_var = "Target muscle group"
    /\ DisplayedNumber(question_numbers, current_section_index) = 9

\* C28: the focus answer changing only while index 0 is shown, the current
\* index of the wizard is 1 only if the focus answer is not "Full body".
C28_BypassedStepNotShown ==
    (screen = "form" /\ current_section_index = 1) => focus_var # "Full body"

\* index 1 is shown, reached by Back from index 2
C28_Witness ==
    /\ screen = "form"
    /\ current_section_index = 1
    /\ lastOp = "back"
    /\ fromIndex = 2

\* C29: on a forward path from the first section, for every focus answer, the
\* numbers displayed on the sections shown are 1, 2, 3, ...: none is skipped
\* or repeated.
C29_ConsecutiveNumbers ==
    \A i \in DOMAIN forward_numbers : forward_numbers[i] = i

(***************************************************************************)
(* Properties of the answer record on the plan page (checked under Spec).  *)
(***************************************************************************)
\* the keys the plan code adds to the record
PlanKeys == {"plan_text", "timestamp", "exercise_instructions"}

\* record e has the nine answers of record d, and beyond d's keys only plan keys
SameAnswers(d, e) ==
    /\ \A k \in Keys : e[k] = d[k]
    /\ DOMAIN d \subseteq DOMAIN e
    /\ DOMAIN e \subseteq DOMAIN d \cup PlanKeys

\* C24: once the plan page is up, no operation (generation, Refresh, display,
\* save) changes any of the nine answers of the record: it only adds or
\* overwrites the plan text, the timestamp and the instruction map.  The record
\* of a page built at start-up is the saved one.
C24_AnswersFrozen ==
    [][/\ (screen = "plan" /\ screen' = "plan") => SameAnswers(responses, responses')
       /\ (screen = "loading" /\ screen' = "plan") => SameAnswers(saved_plan, responses')]_vars

\* the answers were submitted, a generation has stored its plan into the
\* record and the plan is displayed
C24_Witness ==
    /\ screen = "plan"
    /\ lastOp = "display"
    /\ page = "displayed"
    /\ responses["Workout Focus"] = PyStr("Target muscle group", << >>)
    /\ PlanKeys \subseteq DOMAIN responses

\* C27: when a saved record is found at start-up, whichever record
\* save_workout_plan has written, the plan page displays it as it is (no plan
\* or instruction request adds to it) and no generation is scheduled or
\* started.
C27_StartupSkipsGeneration ==
    (lastOp = "start" /\ saved_plan # NoRecord) =>
        /\ page = "displayed"
        /\ responses = saved_plan
        /\ start_timers = 0
        /\ threads = << >>

(***************************************************************************)
(* Properties of save_workout_plan and load_saved_plan (checked under      *)
(* SpecPersist).                                                           *)
(***************************************************************************)
\* save_workout_plan has returned
SaveReturned == save_pc \in {"returned", "loaded"}

\* C23: save_workout_plan tries the alternative location exactly when the
\* primary write raises, and at most once; after a primary write that
\* succeeded it does not try it; and when both writes raise, it returns
\* nevertheless.
C23_AlternativeOnFailure ==
    /\ save_log.alt_attempts <= 1
    /\ save_log.primary = "ok" => (save_log.alt = "none" /\ save_log.alt_attempts = 0)
    /\ SaveReturned => (save_log.alt_attempts = 1 <=> save_log.primary = "raised")
    /\ (save_log.primary = "raised" /\ save_log.alt = "raised") => SaveReturned

\* both writes have raised and save_workout_plan has returned
C23_Witness ==
    /\ save_pc = "returned"
    /\ save_log.primary = "raised"
    /\ save_log.alt = "raised"
    /\ save_log.alt_attempts = 1

\* C30: after a save_workout_plan that wrote the record, to the primary or to
\* the alternative location, a load_saved_plan that can read returns that
\* record.
C30_SaveLoadRoundTrip ==
    (/\ save_pc = "loaded"
     /\ save_log.read = "ok"
     /\ (save_log.primary = "ok" \/ save_log.alt = "ok")) => loaded = save_arg

(***************************************************************************)
(* Properties of the instruction popup (checked under SpecFormat).         *)
(***************************************************************************)
\* the Header and Bullet segments of the sections from position i on: a
\* heading gives a Header, any other section that is not empty a Bullet
RECURSIVE GroupedSegments(_, _)
GroupedSegments(secs, i) ==
    IF i > Len(secs) THEN << >>
    ELSE (IF numbered_heading(secs[i])
          THEN << Insert("header", secs[i] \o << NL >>) >>
          ELSE IF secs[i] # << >>
          THEN << Insert("bullet", BulletMark \o secs[i] \o << NL >>) >>
          ELSE << >>) \o GroupedSegments(secs, i + 1)

\* the plain paragraph made of the sections ls, if there are any
PlainParagraph(ls, before, after) ==
    IF ls = << >> THEN << >>
    ELSE << Insert("normal", before \o JoinLines(ls) \o after) >>

C21_BackgroundOnlyWriter ==
    \A v \in SharedVariables : v \notin fg_writes /\ ~(v \in fg_writes /\ v \in bg_writes)

\* no callback that is pending will schedule itself again
TimersStopped ==
    /\ progress_timer => ~is_generating \/ progress_value >= WaitingValue
    /\ sentence_timer => ~is_generating \/ ~loading_sentence_active

\* the page shows the error notice, or the whole plan
PlanOrNotice == page = "error" \/ (page = "displayed" /\ scan_pc = "done")

\* C22: a generation that has been started comes to its end: from some
\* point on is_generating is false and no timer schedules itself again, and
\* the page shows the plan or the error notice.
C22_GenerationEnds == <>(~is_generating /\ TimersStopped /\ PlanOrNotice)

====
